---- MODULE Spec2Model ----
(***************************************************************************)
(* A model of zip_bootanimation.py: discovery of bootanimation folders,    *)
(* their validation, store-only archiving and the exit status of main.     *)
(*                                                                         *)
(* A name is a sequence of one-character strings, a path is a sequence of  *)
(* names relative to the directory given on the command line, and the file *)
(* system is a function from the existing paths to "file" or "dir".        *)
(* Every path of the file system is readable; the faults modelled are the  *)
(* ones the program handles, exceptions raised while an archive is being   *)
(* written.                                                                *)
(***************************************************************************)
EXTENDS Integers, Sequences, FiniteSets, TLC

VARIABLES
    pc,                     \* position of main: "start", "loop", "summary", "exited"
    argv,                   \* sys.argv
    fs,                     \* the file system below the directory argument
    fs0,                    \* the file system when the program started
    bootanimation_folders,  \* the sorted list process_directory iterates over
    handled,                \* number of loop iterations completed
    successful,             \* process_directory's counter
    failed,                 \* process_directory's counter
    outcomes,               \* one record per handled folder, in handling order
    written,                \* the paths opened for writing so far
    called,                 \* whether process_directory has been called
    exit_status             \* -1 while running, then the process exit status

vars == <<pc, argv, fs, fs0, bootanimation_folders, handled, successful, failed,
          outcomes, written, called, exit_status>>

(***************************************************************************)
(* Bounds of the model.                                                    *)
(***************************************************************************)
MaxChildren == 2

(***************************************************************************)
(* Characters and strings.                                                 *)
(***************************************************************************)
\* ord(c): the code point Python compares strings by.
Ord(c) ==
    CASE c = "\n" -> 10  [] c = "." -> 46
      [] c = "0" -> 48   [] c = "1" -> 49   [] c = "2" -> 50
      [] c = "A" -> 65   [] c = "B" -> 66   [] c = "I" -> 73   [] c = "M" -> 77
      [] c = "N" -> 78   [] c = "O" -> 79   [] c = "T" -> 84
      [] c = "a" -> 97   [] c = "b" -> 98   [] c = "c" -> 99   [] c = "d" -> 100
      [] c = "e" -> 101  [] c = "i" -> 105  [] c = "m" -> 109  [] c = "n" -> 110
      [] c = "o" -> 111  [] c = "p" -> 112  [] c = "r" -> 114  [] c = "s" -> 115
      [] c = "t" -> 116  [] c = "x" -> 120  [] c = "z" -> 122

\* \d of the pattern.
IsDigit(c) == c \in {"0", "1", "2"}

\* Case folding done by re.IGNORECASE.
Lower(c) ==
    CASE c = "A" -> "a" [] c = "B" -> "b" [] c = "I" -> "i" [] c = "M" -> "m"
      [] c = "N" -> "n" [] c = "O" -> "o" [] c = "T" -> "t" [] OTHER -> c

LowerSeq(s) == [k \in 1..Len(s) |-> Lower(s[k])]

\* The literal of the pattern.
BA == <<"b", "o", "o", "t", "a", "n", "i", "m", "a", "t", "i", "o", "n">>

PART0 == <<"p", "a", "r", "t", "0">>
DESC  == <<"d", "e", "s", "c", ".", "t", "x", "t">>
DOTZIP == <<".", "z", "i", "p">>

\* Comparison of tuples of integers (and so of strings by code point), as
\* Python's < on tuples and on str.
RECURSIVE SeqLess(_, _)
SeqLess(a, b) ==
    IF b = <<>> THEN FALSE
    ELSE IF a = <<>> THEN TRUE
    ELSE IF a[1] < b[1] THEN TRUE
    ELSE IF a[1] > b[1] THEN FALSE
    ELSE SeqLess(Tail(a), Tail(b))

\* The key str.sort() orders a name by.
StrKey(s) == [k \in 1..Len(s) |-> Ord(s[k])]

\* int(digits) for a non-empty string of digits.
RECURSIVE ParseInt(_)
ParseInt(ds) ==
    IF ds = <<>> THEN 0
    ELSE 10 * ParseInt(SubSeq(ds, 1, Len(ds) - 1)) + (Ord(ds[Len(ds)]) - 48)

(***************************************************************************)
(* The pattern of find_bootanimation_folders: the literal bootanimation,   *)
(* a group of zero or more digits, and an end anchor, case-insensitively.  *)
(***************************************************************************)
\* The longest run of digits at the head of s, what the greedy \d* takes.
RECURSIVE DigitRun(_)
DigitRun(s) ==
    IF s # <<>> /\ IsDigit(s[1]) THEN <<s[1]>> \o DigitRun(Tail(s)) ELSE <<>>

\* $ without re.MULTILINE: at the end of the string, or just before a newline
\* that is the last character of the string.
DollarMatches(rest) == rest = <<>> \/ rest = <<"\n">>

\* pattern.match(name): [matched, group1].
PatternMatch(name) ==
    IF Len(name) >= Len(BA) /\ LowerSeq(SubSeq(name, 1, Len(BA))) = BA
    THEN LET tail   == SubSeq(name, Len(BA) + 1, Len(name))
             digits == DigitRun(tail)
             rest   == SubSeq(tail, Len(digits) + 1, Len(tail))
         IN  [matched |-> DollarMatches(rest), group1 |-> digits]
    ELSE [matched |-> FALSE, group1 |-> <<>>]

(***************************************************************************)
(* sorted(list, key=...), list.sort(): a stable sort by key.               *)
(***************************************************************************)
\* Insert item x (a record with a key) after every item whose key is not greater.
RECURSIVE InsertByKey(_, _)
InsertByKey(sorted, x) ==
    IF sorted = <<>> THEN <<x>>
    ELSE IF SeqLess(x.key, sorted[1].key) THEN <<x>> \o sorted
    ELSE <<sorted[1]>> \o InsertByKey(Tail(sorted), x)

RECURSIVE SortByKey(_)
SortByKey(items) ==
    IF items = <<>> THEN <<>>
    ELSE InsertByKey(SortByKey(SubSeq(items, 1, Len(items) - 1)), items[Len(items)])

Values(items) == [k \in 1..Len(items) |-> items[k].val]

\* list.sort() of a list of names.
SortNames(names) ==
    Values(SortByKey([k \in 1..Len(names) |-> [key |-> StrKey(names[k]), val |-> names[k]]]))

(***************************************************************************)
(* pathlib                                                                 *)
(***************************************************************************)
exists(f, p)  == p \in DOMAIN f
is_dir(f, p)  == p \in DOMAIN f /\ f[p] = "dir"
is_file(f, p) == p \in DOMAIN f /\ f[p] = "file"

\* path.name
NameOf(p) == p[Len(p)]

\* The names directly inside directory d.
ChildNames(f, d) == {NameOf(p) : p \in {q \in DOMAIN f : Len(q) = Len(d) + 1 /\ SubSeq(q, 1, Len(d)) = d}}

\* The orders a directory listing may enumerate a set of names in.
Enumerations(S) ==
    {e \in [1..Cardinality(S) -> S] : \A a, b \in 1..Cardinality(S) : a # b => e[a] # e[b]}

\* The index of the last "." of a name that starts a suffix, 0 when it has none
\* (PurePath.suffix: 0 < i < len(name) - 1, counting from 0).
SuffixStart(name) ==
    LET dots == {k \in 2..(Len(name) - 1) : name[k] = "."}
    IN  IF dots = {} THEN 0 ELSE CHOOSE k \in dots : \A j \in dots : j <= k

\* path.with_suffix(suffix)
with_suffix(p, suffix) ==
    LET name == NameOf(p)
        k    == SuffixStart(name)
        stem == IF k = 0 THEN name ELSE SubSeq(name, 1, k - 1)
    IN  SubSeq(p, 1, Len(p) - 1) \o <<stem \o suffix>>

\* path.relative_to(base), for a path that starts with base.
relative_to(p, base) == SubSeq(p, Len(base) + 1, Len(p))

(***************************************************************************)
(* is_valid_bootanimation_folder                                           *)
(***************************************************************************)
\* A variant that only asks whether the two entries exist.
is_valid_exists_only(f, folder_path) ==
    exists(f, Append(folder_path, PART0)) /\ exists(f, Append(folder_path, DESC))

is_valid_bootanimation_folder(f, folder_path) ==
    LET part0_path == Append(folder_path, PART0)
        desc_path  == Append(folder_path, DESC)
        has_part0  == exists(f, part0_path) /\ is_dir(f, part0_path)
        has_desc   == exists(f, desc_path) /\ is_file(f, desc_path)
    IN  has_part0 /\ has_desc

(***************************************************************************)
(* find_bootanimation_folders                                              *)
(***************************************************************************)
\* A variant that orders the suffixes as text.
sort_key_text(name) ==
    LET match == PatternMatch(name)
    IN  IF match.matched /\ match.group1 # <<>>
        THEN <<1>> \o StrKey(match.group1)
        ELSE <<0, 0>>

sort_key(name) ==
    LET match == PatternMatch(name)
    IN  IF match.matched /\ match.group1 # <<>>
        THEN <<1, ParseInt(match.group1)>>
        ELSE <<0, 0>>

\* The loop over directory.iterdir(), which yields the names in the order
\* listing; the result is the list before it is sorted.
MatchingFolders(f, directory, listing) ==
    LET keep(n) == is_dir(f, Append(directory, n)) /\ PatternMatch(n).matched
        names   == SelectSeq(listing, keep)
    IN  [k \in 1..Len(names) |-> Append(directory, names[k])]

\* sorted(bootanimation_folders, key=sort_key)
SortFolders(folders) ==
    Values(SortByKey([k \in 1..Len(folders) |->
                        [key |-> sort_key(NameOf(folders[k])), val |-> folders[k]]]))

find_bootanimation_folders(f, directory, listing) ==
    SortFolders(MatchingFolders(f, directory, listing))

(***************************************************************************)
(* zip_folder_store_only                                                   *)
(***************************************************************************)
\* The compression the ZipFile is opened with, which zf.write gives each entry.
Compression == "ZIP_STORED"

\* Every name below root, at any depth.
NamesUnder(f, root) ==
    {NameOf(p) : p \in {q \in DOMAIN f : Len(q) > Len(root) /\ SubSeq(q, 1, Len(root)) = root}}

\* The number of files below root, at any depth.
FileCount(f, root) ==
    Cardinality({q \in DOMAIN f : Len(q) > Len(root) /\ SubSeq(q, 1, Len(root)) = root /\ f[q] # "dir"})

\* The names inside directory d in the order the file system enumerates them,
\* which is the order scan puts them in.
Listing(f, d, scan) ==
    LET inside(n) == Append(d, n) \in DOMAIN f
    IN  SelectSeq(scan, inside)

\* A variant that leaves a listing in the order it was enumerated in.
SortListing_unsorted(names) == names

\* dirs.sort() and files.sort()
SortListing(names) == SortNames(names)

\* A variant that names a file relative to the folder's parent.
ArcName_from_parent(file_path, folder_path) ==
    relative_to(file_path, SubSeq(folder_path, 1, Len(folder_path) - 1))

\* The archive name of a file.
ArcName(file_path, folder_path) == relative_to(file_path, folder_path)

\* The zf.write calls of the loop over os.walk(folder_path), in order: for each
\* directory visited its files, then its subdirectories, top down.
RECURSIVE WalkWrites(_, _, _, _), WalkDirs(_, _, _, _, _)
WalkWrites(f, folder_path, root, scan) ==
    LET listing    == Listing(f, root, scan)
        isdir(n)   == is_dir(f, Append(root, n))
        isfile(n)  == ~is_dir(f, Append(root, n))
        dirs       == SortListing(SelectSeq(listing, isdir))
        files      == SortListing(SelectSeq(listing, isfile))
        writes     == [k \in 1..Len(files) |->
                         [arcname       |-> ArcName(Append(root, files[k]), folder_path),
                          compress_type |-> Compression]]
    IN  writes \o WalkDirs(f, folder_path, root, dirs, scan)
WalkDirs(f, folder_path, root, dirs, scan) ==
    IF dirs = <<>> THEN <<>>
    ELSE WalkWrites(f, folder_path, Append(root, dirs[1]), scan)
           \o WalkDirs(f, folder_path, root, Tail(dirs), scan)

\* zip_folder_store_only(folder_path, output_zip) when the file system lists
\* directories in the order scan and fault says where an exception is raised:
\* -1 when the archive cannot be opened, k >= 0 when the write after the first
\* k fails, and the number of files to write when none fails.  Opening an existing
\* directory for writing always fails.  The result is the value returned (ok),
\* whether the archive file was created or truncated (opened), and the
\* entries the archive holds when it is closed.
zip_folder_store_only(f, folder_path, output_zip, scan, fault) ==
    LET writes == WalkWrites(f, folder_path, folder_path, scan)
    IN  IF fault < 0 \/ is_dir(f, output_zip)
        THEN [ok |-> FALSE, opened |-> FALSE, entries |-> <<>>]
        ELSE IF fault < Len(writes)
        THEN [ok |-> FALSE, opened |-> TRUE, entries |-> SubSeq(writes, 1, fault)]
        ELSE [ok |-> TRUE, opened |-> TRUE, entries |-> writes]

(***************************************************************************)
(* process_directory: one iteration of the loop over the folders           *)
(***************************************************************************)
\* The list printed after "Skipped - Missing required:".
MissingList(f, folder) ==
    LET part0_exists == exists(f, Append(folder, PART0))
        desc_exists  == exists(f, Append(folder, DESC))
    IN  (IF ~part0_exists THEN <<"part0/">> ELSE <<>>)
          \o (IF ~desc_exists THEN <<"desc.txt">> ELSE <<>>)

\* A variant that puts the archive inside the folder.
OutputZip_inside(folder) == Append(folder, NameOf(folder) \o DOTZIP)

\* The path of the archive of a folder.
OutputZip(folder) == with_suffix(folder, DOTZIP)

(***************************************************************************)
(* The directories the program is run on.                                  *)
(***************************************************************************)
NoFiles == [p \in {} |-> "file"]

Entry(path, kind) == IF kind = "absent" THEN NoFiles ELSE (path :> kind)

\* A folder holding part0 and desc.txt, each absent, a file or an empty directory.
Plain(part0_kind, desc_kind) == Entry(<<PART0>>, part0_kind) @@ Entry(<<DESC>>, desc_kind)

\* A valid folder with files side by side, directories side by side, and
\* files three levels deep.
Deep ==
    (<<DESC>> :> "file") @@ (<<<<"0">>>> :> "file") @@ (<<PART0>> :> "dir")
      @@ (<<PART0, DESC>> :> "file")
      @@ (<<PART0, PART0>> :> "dir") @@ (<<PART0, PART0, <<"0">>>> :> "file")
      @@ (<<PART0, <<"0">>>> :> "dir") @@ (<<PART0, <<"0">>, <<"0">>>> :> "file")

\* A folder that is not a boot animation but holds one, named bootanimation.
Nested ==
    (<<BA>> :> "dir") @@ (<<BA, PART0>> :> "dir") @@ (<<BA, DESC>> :> "file")

FolderShapes ==
    {Plain(a, b) : a \in {"absent", "file", "dir"}, b \in {"absent", "file", "dir"}}
      \cup {Deep, Nested}

\* Names the pattern is tried on.
MatchedNames ==
    {BA,
     BA \o <<"2">>,
     BA \o <<"1", "0">>,
     <<"B", "o", "o", "t", "A", "n", "i", "m", "a", "t", "i", "o", "n", "0", "2">>,
     BA \o <<"\n">>}
OtherNames == {BA \o <<"2", "x">>, <<"x">> \o BA}
ZipName == BA \o DOTZIP

\* The shapes every matched name is tried with; the name bootanimation is
\* tried with all of them.
CommonShapes == {Plain("dir", "file"), Plain("file", "file"), Plain("absent", "dir"), Deep}

\* What the directory may hold: a name, what it is, and what is inside it.
Children ==
    {[name |-> BA, kind |-> "dir", shape |-> t] : t \in FolderShapes}
      \cup {[name |-> n, kind |-> "dir", shape |-> t] : n \in MatchedNames, t \in CommonShapes}
      \cup {[name |-> n, kind |-> "file", shape |-> NoFiles] : n \in MatchedNames \cup {ZipName}}
      \cup {[name |-> n, kind |-> "dir", shape |-> t] : n \in OtherNames, t \in {Plain("dir", "file"), Nested}}
      \cup {[name |-> ZipName, kind |-> "dir", shape |-> NoFiles]}

\* The sets of at most n children with different names.
RECURSIVE ChildSets(_)
ChildSets(n) ==
    IF n = 0 THEN {{}}
    ELSE LET smaller == ChildSets(n - 1)
             more(S) == {S \cup {c} : c \in {d \in Children : \A e \in S : e.name # d.name}}
         IN  smaller \cup UNION {more(S) : S \in smaller}

\* The file system holding the children S.
MakeFS(S) ==
    LET child(n) == CHOOSE c \in S : c.name = n
        paths    == UNION {{<<c.name>>} \cup {<<c.name>> \o q : q \in DOMAIN c.shape} : c \in S}
    IN  [p \in paths |-> IF Len(p) = 1 THEN child(p[1]).kind ELSE child(p[1]).shape[Tail(p)]]

\* The command lines: no argument, or a path that is a directory, a regular
\* file, or nothing.
Argvs == {<<"zip_bootanimation.py">>} \cup
         {<<"zip_bootanimation.py", a>> : a \in {"dir", "file", "missing"}}

\* directory.exists()
ArgExists(a) == a \in {"dir", "file"}

\* A variant that takes every existing path for a directory.
ArgIsDir_any(a) == TRUE

\* directory.is_dir()
ArgIsDir(a)  == a = "dir"

\* The directory the argument resolves to.
Directory == <<>>

Init ==
    /\ pc = "start"
    /\ argv \in Argvs
    /\ fs \in {MakeFS(S) : S \in ChildSets(MaxChildren)}
    /\ fs0 = fs
    /\ bootanimation_folders = <<>>
    /\ handled = 0
    /\ successful = 0
    /\ failed = 0
    /\ outcomes = <<>>
    /\ written = {}
    /\ called = FALSE
    /\ exit_status = -1

(***************************************************************************)
(* main                                                                    *)
(***************************************************************************)
Exit(status) ==
    /\ pc' = "exited"
    /\ exit_status' = status

\* len(sys.argv) < 2: usage, sys.exit(1).
MainUsage ==
    /\ pc = "start"
    /\ Len(argv) < 2
    /\ Exit(1)
    /\ UNCHANGED <<argv, fs, fs0, bootanimation_folders, handled, successful, failed,
                   outcomes, written, called>>

\* not directory.exists(): sys.exit(1).
MainNoSuchDirectory ==
    /\ pc = "start"
    /\ Len(argv) >= 2
    /\ ~ArgExists(argv[2])
    /\ Exit(1)
    /\ UNCHANGED <<argv, fs, fs0, bootanimation_folders, handled, successful, failed,
                   outcomes, written, called>>

\* not directory.is_dir(): sys.exit(1).
MainNotADirectory ==
    /\ pc = "start"
    /\ Len(argv) >= 2
    /\ ArgExists(argv[2])
    /\ ~ArgIsDir(argv[2])
    /\ Exit(1)
    /\ UNCHANGED <<argv, fs, fs0, bootanimation_folders, handled, successful, failed,
                   outcomes, written, called>>

\* process_directory(directory) up to its loop: the folders are found and
\* sorted, and with none found it returns 0, 0 at once.
ProcessDirectory ==
    /\ pc = "start"
    /\ Len(argv) >= 2
    /\ ArgExists(argv[2])
    /\ ArgIsDir(argv[2])
    /\ \E listing \in Enumerations(ChildNames(fs, Directory)) :
          bootanimation_folders' = find_bootanimation_folders(fs, Directory, listing)
    /\ called' = TRUE
    /\ successful' = 0
    /\ failed' = 0
    /\ pc' = IF bootanimation_folders' = <<>> THEN "summary" ELSE "loop"
    /\ UNCHANGED <<argv, fs, fs0, handled, outcomes, written, exit_status>>

\* A variant that leaves the loop after its first iteration.
AfterIteration_return == "summary"

\* Where the loop goes after an iteration.
AfterIteration == IF handled + 1 < Len(bootanimation_folders) THEN "loop" ELSE "summary"

\* An iteration on a folder that fails validation.
SkipFolder ==
    /\ pc = "loop"
    /\ LET folder == bootanimation_folders[handled + 1]
       IN  /\ ~is_valid_bootanimation_folder(fs, folder)
           /\ outcomes' = Append(outcomes,
                                 [folder |-> folder, status |-> "skipped",
                                  missing |-> MissingList(fs, folder),
                                  output_zip |-> <<>>, entries |-> <<>>])
    /\ failed' = failed + 1
    /\ handled' = handled + 1
    /\ pc' = AfterIteration
    /\ UNCHANGED <<argv, fs, fs0, bootanimation_folders, successful, written, called,
                   exit_status>>

\* An iteration on a valid folder: it is archived, and the archive is created
\* or an exception is caught.
ZipFolder ==
    /\ pc = "loop"
    /\ LET folder     == bootanimation_folders[handled + 1]
           output_zip == OutputZip(folder)
       IN  /\ is_valid_bootanimation_folder(fs, folder)
           /\ \E scan \in Enumerations(NamesUnder(fs, folder)) :
              \E fault \in -1..FileCount(fs, folder) :
              \E r \in {zip_folder_store_only(fs, folder, output_zip, scan, fault)} :
                    /\ fs' = IF r.opened THEN (output_zip :> "file") @@ fs ELSE fs
                    /\ written' = IF r.opened THEN written \cup {output_zip} ELSE written
                    /\ successful' = IF r.ok THEN successful + 1 ELSE successful
                    /\ failed' = IF r.ok THEN failed ELSE failed + 1
                    /\ outcomes' = Append(outcomes,
                                          [folder |-> folder,
                                           status |-> IF r.ok THEN "created" ELSE "failed",
                                           missing |-> <<>>,
                                           output_zip |-> output_zip,
                                           entries |-> r.entries])
    /\ handled' = handled + 1
    /\ pc' = AfterIteration
    /\ UNCHANGED <<argv, fs0, bootanimation_folders, called, exit_status>>

\* A variant that tolerates one failure.
ExitStatus_above_one(n_failed) == IF n_failed > 1 THEN 1 ELSE 0

\* sys.exit(1) if failed > 0, else the end of the script.
ExitStatus(n_failed) == IF n_failed > 0 THEN 1 ELSE 0

\* The summary and the exit status.
MainExit ==
    /\ pc = "summary"
    /\ Exit(ExitStatus(failed))
    /\ UNCHANGED <<argv, fs, fs0, bootanimation_folders, handled, successful, failed,
                   outcomes, written, called>>

Next ==
    \/ MainUsage
    \/ MainNoSuchDirectory
    \/ MainNotADirectory
    \/ ProcessDirectory
    \/ SkipFolder
    \/ ZipFolder
    \/ MainExit

Spec == Init /\ [][Next]_vars

(***************************************************************************)
(* Properties                                                              *)
(***************************************************************************)
KindOf(f, p) == IF p \in DOMAIN f THEN f[p] ELSE "absent"

IsPrefix(a, b) == Len(a) <= Len(b) /\ SubSeq(b, 1, Len(a)) = a

Handled == 1..Len(outcomes)

Statuses == {outcomes[k].status : k \in Handled}

\* The files at any depth under folder F when the program started.
FilesUnder(F) == {p \in DOMAIN fs0 : Len(p) > Len(F) /\ IsPrefix(F, p) /\ fs0[p] = "file"}

\* The tree under folder F, by paths relative to F.
TreeOf(F) ==
    LET below == {p \in DOMAIN fs0 : Len(p) > Len(F) /\ IsPrefix(F, p)}
    IN  {<<SubSeq(p, Len(F) + 1, Len(p)), fs0[p]>> : p \in below}

\* C1: is_valid_bootanimation_folder(F) is true exactly when F directly
\* contains part0 as a directory and desc.txt as a regular file, and a folder
\* is skipped by the loop exactly when that is not so.
C1_ValidIffPart0DirAndDescFile ==
    /\ \A F \in {p \in DOMAIN fs : fs[p] = "dir"} :
          is_valid_bootanimation_folder(fs, F)
            <=> (KindOf(fs, Append(F, PART0)) = "dir" /\ KindOf(fs, Append(F, DESC)) = "file")
    /\ \A k \in Handled :
          outcomes[k].status = "skipped"
            <=> ~(KindOf(fs0, Append(outcomes[k].folder, PART0)) = "dir"
                   /\ KindOf(fs0, Append(outcomes[k].folder, DESC)) = "file")

\* C1 witness: a folder whose part0 is a regular file was skipped and a folder
\* with part0 a directory and desc.txt a file was not.
C1_Witness ==
    /\ \E k \in Handled :
          /\ outcomes[k].status = "skipped"
          /\ KindOf(fs0, Append(outcomes[k].folder, PART0)) = "file"
          /\ KindOf(fs0, Append(outcomes[k].folder, DESC)) = "file"
    /\ \E k \in Handled : outcomes[k].status = "created"

\* A name that is bootanimation, in any case, followed by digits only.
IsBootanimationName(n) ==
    /\ Len(n) >= Len(BA)
    /\ LowerSeq(SubSeq(n, 1, Len(BA))) = BA
    /\ \A k \in (Len(BA) + 1)..Len(n) : IsDigit(n[k])

\* C2: the folders found are exactly the immediate subdirectories whose whole
\* name is bootanimation, in any case, followed by zero or more digits, each
\* once.
C2_FoundExactlyTheNamedFolders ==
    called =>
      /\ {bootanimation_folders[k] : k \in 1..Len(bootanimation_folders)}
           = {<<n>> : n \in {m \in ChildNames(fs0, Directory) :
                               fs0[<<m>>] = "dir" /\ IsBootanimationName(m)}}
      /\ \A a, b \in 1..Len(bootanimation_folders) :
            a # b => bootanimation_folders[a] # bootanimation_folders[b]

\* The digits that follow the thirteen letters of a folder's name.
SuffixOf(folder) == DigitRun(SubSeq(NameOf(folder), Len(BA) + 1, Len(NameOf(folder))))

\* C3: in the list of folders found, no folder with a digit suffix comes before
\* one without, and the suffixed folders are in ascending order of the number
\* the suffix denotes.
C3_BareFirstThenNumeric ==
    called =>
      \A a, b \in 1..Len(bootanimation_folders) :
         a < b =>
           /\ ~(SuffixOf(bootanimation_folders[a]) # <<>> /\ SuffixOf(bootanimation_folders[b]) = <<>>)
           /\ (SuffixOf(bootanimation_folders[a]) # <<>> /\ SuffixOf(bootanimation_folders[b]) # <<>>)
                => ParseInt(SuffixOf(bootanimation_folders[a])) <= ParseInt(SuffixOf(bootanimation_folders[b]))

\* C3 witness: bootanimation2 was found and sorted before bootanimation10.
C3_Witness ==
    /\ called
    /\ bootanimation_folders = << <<BA \o <<"2">>>>, <<BA \o <<"1", "0">>>> >>

\* C4: an archive reported as created holds one entry for each file at any
\* depth under the folder and nothing else, each named by the file's path
\* relative to the folder and stored without compression.
C4_ArchiveHoldsEveryFileOnce ==
    \A k \in Handled :
       outcomes[k].status = "created" =>
         LET F       == outcomes[k].folder
             entries == outcomes[k].entries
         IN  /\ {entries[i].arcname : i \in 1..Len(entries)}
                  = {SubSeq(p, Len(F) + 1, Len(p)) : p \in FilesUnder(F)}
             /\ Len(entries) = Cardinality(FilesUnder(F))
             /\ \A i \in 1..Len(entries) :
                   /\ F \o entries[i].arcname \in FilesUnder(F)
                   /\ entries[i].compress_type = "ZIP_STORED"

\* C4 witness: an archive was created of a folder with a file three levels down.
C4_Witness ==
    \E k \in Handled :
       /\ outcomes[k].status = "created"
       /\ \E i \in 1..Len(outcomes[k].entries) : Len(outcomes[k].entries[i].arcname) = 3
       /\ \E i \in 1..Len(outcomes[k].entries) : Len(outcomes[k].entries[i].arcname) = 1

\* C5: in a created archive the files of one directory are in ascending order
\* of name, the files of a directory come before those of its subdirectories,
\* which come in ascending order of name; and two folders with the same tree
\* give the same sequence of entries.
C5_EntryOrderIsDetermined ==
    /\ \A k \in Handled :
          outcomes[k].status = "created" =>
            LET entries == outcomes[k].entries
            IN  \A i, j \in 1..Len(entries) :
                   i < j =>
                     LET a == entries[i].arcname
                         b == entries[j].arcname
                         c == CHOOSE n \in 0..Len(a) :
                                 /\ n <= Len(b)
                                 /\ SubSeq(a, 1, n) = SubSeq(b, 1, n)
                                 /\ (n < Len(a) /\ n < Len(b)) => a[n + 1] # b[n + 1]
                     IN  /\ c < Len(a) /\ c < Len(b)
                         /\ Len(b) = c + 1 => Len(a) = c + 1
                         /\ (Len(a) = c + 1) = (Len(b) = c + 1)
                              => SeqLess(StrKey(a[c + 1]), StrKey(b[c + 1]))
    /\ \A k, m \in Handled :
          (/\ outcomes[k].status = "created"
           /\ outcomes[m].status = "created"
           /\ TreeOf(outcomes[k].folder) = TreeOf(outcomes[m].folder))
            => outcomes[k].entries = outcomes[m].entries

\* C5 witness: two folders with the same tree, which has two files in one
\* directory and two directories in another, were both archived.
C5_Witness ==
    \E k, m \in Handled :
       /\ k # m
       /\ outcomes[k].status = "created"
       /\ outcomes[m].status = "created"
       /\ TreeOf(outcomes[k].folder) = TreeOf(outcomes[m].folder)
       /\ Len(outcomes[k].entries) = 5

\* C6: run on an existing directory, the program exits with a nonzero status
\* exactly when a folder it found was skipped or failed to be archived, so it
\* exits with zero when every folder was archived and when none was found.
C6_ExitStatusIffSkippedOrFailed ==
    (pc = "exited" /\ Len(argv) >= 2 /\ argv[2] = "dir") =>
      /\ exit_status # 0 <=> (Statuses \cap {"skipped", "failed"} # {})
      /\ Statuses \subseteq {"created"} => exit_status = 0

\* C6 witness: the program exited after archiving one folder and failing on
\* another.
C6_Witness ==
    /\ pc = "exited"
    /\ exit_status = 1
    /\ Statuses = {"created", "failed"}

\* C7: without a directory argument, or with one that does not exist or is not
\* a directory, process_directory is never called, nothing is found, handled
\* or written, and the exit status is nonzero.
C7_BadArgumentExitsBeforeProcessing ==
    (Len(argv) < 2 \/ argv[2] # "dir") =>
      /\ ~called
      /\ pc \in {"start", "exited"}
      /\ pc = "exited" => exit_status # 0
      /\ bootanimation_folders = <<>>
      /\ outcomes = <<>>
      /\ written = {}
      /\ fs = fs0

\* C7 witness: the program exited on a path that is a regular file while a
\* valid bootanimation folder was there to be found.
C7_Witness ==
    /\ pc = "exited"
    /\ Len(argv) = 2
    /\ argv[2] = "file"
    /\ is_dir(fs, <<BA>>)
    /\ KindOf(fs, <<BA, PART0>>) = "dir"
    /\ KindOf(fs, <<BA, DESC>>) = "file"

Count(status) == Cardinality({k \in Handled : outcomes[k].status = status})

\* C8: the loop handles the folders found once each and in order, giving each
\* one outcome; successful + failed is the number handled so far, and on
\* return the number found, whatever was skipped or failed on the way.
C8_EveryFolderHandledOnce ==
    called =>
      /\ handled = Len(outcomes)
      /\ handled <= Len(bootanimation_folders)
      /\ \A k \in Handled :
            /\ outcomes[k].folder = bootanimation_folders[k]
            /\ outcomes[k].status \in {"created", "skipped", "failed"}
      /\ successful + failed = handled
      /\ successful = Count("created")
      /\ failed = Count("skipped") + Count("failed")
      /\ pc \in {"summary", "exited"} => handled = Len(bootanimation_folders)
      /\ pc = "loop" => handled < Len(bootanimation_folders)

\* C8 witness: the loop returned after a folder was skipped or failed and the
\* folder after it was archived.
C8_Witness ==
    /\ pc = "summary"
    /\ Len(outcomes) = 2
    /\ outcomes[1].status \in {"skipped", "failed"}
    /\ outcomes[2].status = "created"

\* C9: the only paths written are <name>.zip, beside the folder, for folders
\* found that passed validation; nothing else changes, a skipped folder's
\* archive path is never written, and no path inside a folder found is
\* written or changed.
C9_OnlySiblingArchivesWritten ==
    /\ \A p \in written :
          /\ \E k \in Handled :
                /\ outcomes[k].status # "skipped"
                /\ p = Append(Directory, NameOf(outcomes[k].folder) \o DOTZIP)
          /\ \A k \in 1..Len(bootanimation_folders) : ~IsPrefix(bootanimation_folders[k], p)
    /\ \A k \in Handled :
          outcomes[k].status = "skipped"
            => Append(Directory, NameOf(outcomes[k].folder) \o DOTZIP) \notin written
    /\ \A p \in DOMAIN fs0 : p \in DOMAIN fs /\ (p \notin written => fs[p] = fs0[p])
    /\ \A p \in DOMAIN fs : p \notin DOMAIN fs0 => p \in written
    /\ \A k \in 1..Len(bootanimation_folders) :
          \A p \in DOMAIN fs \cup DOMAIN fs0 :
             IsPrefix(bootanimation_folders[k], p) => KindOf(fs, p) = KindOf(fs0, p)

\* C9 witness: one folder was skipped, and another was archived into a new file
\* beside it.
C9_Witness ==
    /\ \E k \in Handled : outcomes[k].status = "skipped"
    /\ \E k \in Handled :
          /\ outcomes[k].status = "created"
          /\ outcomes[k].output_zip \in written
          /\ outcomes[k].output_zip \notin DOMAIN fs0

InList(x, list) == \E k \in 1..Len(list) : list[k] = x

\* C10: the list reported for a skipped folder is not empty, names part0/
\* exactly when the folder has no directory part0, and names desc.txt exactly
\* when it has no regular file desc.txt.
C10_MissingListNamesUnmetRequirements ==
    \A k \in Handled :
       outcomes[k].status = "skipped" =>
         /\ outcomes[k].missing # <<>>
         /\ InList("part0/", outcomes[k].missing)
              <=> KindOf(fs0, Append(outcomes[k].folder, PART0)) # "dir"
         /\ InList("desc.txt", outcomes[k].missing)
              <=> KindOf(fs0, Append(outcomes[k].folder, DESC)) # "file"

====
